---------------------------- MODULE Spec2Model ----------------------------
(***************************************************************************)
(* A model of the string-resource validator of android-tools: the four     *)
(* value rules, validateResources, Validate and the validateStrings        *)
(* command of main.                                                        *)
(*                                                                         *)
(* A Go string is a sequence of one-character strings.  fmt.Sprintf is     *)
(* the tuple of its format string and its arguments.  A Go error value is  *)
(* such a tuple, Nil when there is none.  A function that can panic        *)
(* returns a record with a panicked flag.                                  *)
(***************************************************************************)
EXTENDS Integers, Sequences, FiniteSets, TLC

VARIABLES
    resDir,               \* main.go projectResDirArg / Validate's resDir
    baseLocale,           \* Validate's baseLocale
    showMissing,          \* Validate's showMissing
    fs,                   \* the res directory: values directory |-> strings file
    pc,                   \* position in validateStrings / Validate
    baseResources,        \* Validate's baseResources
    paths,                \* Validate's paths
    idx,                  \* index of the next element of paths in Validate's loop
    errorList,            \* Validate's errorList
    ers,                  \* what the last call of validateResources built
    exitStatus,           \* status the process ended with, NoStatus while it runs
    baseElemString,       \* first argument of a rule applied on its own
    validatedElemString,  \* second argument of a rule applied on its own
    ruleOutcome           \* what the four rules returned for these arguments

vars == <<resDir, baseLocale, showMissing, fs, pc, baseResources, paths, idx,
          errorList, ers, exitStatus, baseElemString, validatedElemString, ruleOutcome>>

ruleVars == <<baseElemString, validatedElemString, ruleOutcome>>

-----------------------------------------------------------------------------
(* Characters and the four regular expressions.                            *)

\* [a-zA-Z]
Letters ==
    {"a","b","c","d","e","f","g","h","i","j","k","l","m","n","o","p","q","r","s",
     "t","u","v","w","x","y","z","A","B","C","D","E","F","G","H","I","J","K","L",
     "M","N","O","P","Q","R","S","T","U","V","W","X","Y","Z"}

\* [0-9]
Digits == {"0","1","2","3","4","5","6","7","8","9"}

\* \s of Go's regexp (RE2): [\t\n\f\r ]
SpaceChars == {"\t", "\n", "\f", "\r", " "}

Nil == <<"nil">>

Sprintf2(format, a, b) == <<format, a, b>>

Sprintf3(format, a, b, c) == <<format, a, b, c>>

Sprintf1(format, a) == <<format, a>>

\* FindAllStringSubmatch(s, -1) for (\%[a-zA-Z]), scanning from index i:
\* the leftmost match, then the next one after its end.
RECURSIVE SimpleMatchesFrom(_, _)
SimpleMatchesFrom(s, i) ==
    IF i > Len(s) THEN <<>>
    ELSE IF s[i] = "%" /\ i + 1 <= Len(s) /\ s[i + 1] \in Letters
         THEN <<SubSeq(s, i, i + 1)>> \o SimpleMatchesFrom(s, i + 2)
         ELSE SimpleMatchesFrom(s, i + 1)

SimplePlaceholderRegex(s) == SimpleMatchesFrom(s, 1)

\* The index after the run of digits that starts at j (j itself when there is none).
RECURSIVE DigitsEnd(_, _)
DigitsEnd(s, j) ==
    IF j <= Len(s) /\ s[j] \in Digits THEN DigitsEnd(s, j + 1) ELSE j

\* FindAllStringSubmatch(s, -1) for (\%[0-9]+\$[a-zA-Z]), scanning from index i.
RECURSIVE PositionalMatchesFrom(_, _)
PositionalMatchesFrom(s, i) ==
    IF i > Len(s) THEN <<>>
    ELSE LET j == DigitsEnd(s, i + 1) IN
         IF /\ s[i] = "%"
            /\ j > i + 1
            /\ j + 1 <= Len(s)
            /\ s[j] = "$"
            /\ s[j + 1] \in Letters
         THEN <<SubSeq(s, i, j + 1)>> \o PositionalMatchesFrom(s, j + 2)
         ELSE PositionalMatchesFrom(s, i + 1)

PositionalPlaceholderRegex(s) == PositionalMatchesFrom(s, 1)

\* FindAllStringSubmatch(s, -1) for (\%\s), scanning from index i.
RECURSIVE PotentialMatchesFrom(_, _)
PotentialMatchesFrom(s, i) ==
    IF i > Len(s) THEN <<>>
    ELSE IF s[i] = "%" /\ i + 1 <= Len(s) /\ s[i + 1] \in SpaceChars
         THEN <<SubSeq(s, i, i + 1)>> \o PotentialMatchesFrom(s, i + 2)
         ELSE PotentialMatchesFrom(s, i + 1)

PotentialPlaceholderRegex(s) == PotentialMatchesFrom(s, 1)

\* FindAllStringSubmatch(s, -1) for (\n), scanning from index i.
RECURSIVE NewLineMatchesFrom(_, _)
NewLineMatchesFrom(s, i) ==
    IF i > Len(s) THEN <<>>
    ELSE IF s[i] = "\n"
         THEN <<SubSeq(s, i, i)>> \o NewLineMatchesFrom(s, i + 1)
         ELSE NewLineMatchesFrom(s, i + 1)

NewLineRegex(s) == NewLineMatchesFrom(s, 1)

\* NewLineRegex.ReplaceAllString(s, "\\n"): every newline becomes the two
\* characters backslash and n.
RECURSIVE ReplaceNewLinesFrom(_, _)
ReplaceNewLinesFrom(s, i) ==
    IF i > Len(s) THEN <<>>
    ELSE (IF s[i] = "\n" THEN <<"\\", "n">> ELSE <<s[i]>>)
         \o ReplaceNewLinesFrom(s, i + 1)

ReplaceAllNewLines(s) == ReplaceNewLinesFrom(s, 1)

-----------------------------------------------------------------------------
(* The rules.  Each returns [panicked, err]: err is Nil when the rule      *)
(* passes; panicked is TRUE when the Go function panics instead of         *)
(* returning.                                                              *)

Returns(err) == [panicked |-> FALSE, err |-> err]

Panics == [panicked |-> TRUE, err |-> Nil]

CountFormat == "The target string has %d placeholder(s), while it should probably have %d"

MismatchFormat == "The target string placeholder #%d is %s, while it probably should be %s"

PotentialFormat == "Value '%s' has a potential placeholder"

NewlineFormat == "The following line must not have a newline character: '%s'"

\* The loop of validateSimplePlaceholders from (1-based) index i: the first
\* index whose tokens differ is reported with Go's 0-based index.
RECURSIVE SimpleCompareFrom(_, _, _)
SimpleCompareFrom(baseMatches, targetMatches, i) ==
    IF i > Len(baseMatches) THEN Returns(Nil)
    ELSE IF baseMatches[i] # targetMatches[i]
         THEN Returns(Sprintf3(MismatchFormat, i - 1, targetMatches[i], baseMatches[i]))
         ELSE SimpleCompareFrom(baseMatches, targetMatches, i + 1)

MutSimpleAsSet(baseString, validatedString) ==
    LET baseMatches == SimplePlaceholderRegex(baseString)
        targetMatches == SimplePlaceholderRegex(validatedString)
        missing == {i \in 1..Len(baseMatches) :
                       \A k \in 1..Len(targetMatches) : targetMatches[k] # baseMatches[i]}
    IN  IF Len(baseMatches) = 0 /\ Len(targetMatches) = 0 THEN Returns(Nil)
        ELSE IF Len(baseMatches) # Len(targetMatches)
        THEN Returns(Sprintf2(CountFormat, Len(targetMatches), Len(baseMatches)))
        ELSE IF missing = {} THEN Returns(Nil)
        ELSE LET i == CHOOSE m \in missing : \A n \in missing : m <= n
             IN  Returns(Sprintf3(MismatchFormat, i - 1, targetMatches[i], baseMatches[i]))

validateSimplePlaceholders(baseString, validatedString) ==
    LET baseMatches == SimplePlaceholderRegex(baseString)
        targetMatches == SimplePlaceholderRegex(validatedString)
        baseMatchesCount == Len(baseMatches)
        targetMatchesCount == Len(targetMatches)
    IN  IF baseMatchesCount = 0 /\ targetMatchesCount = 0 THEN Returns(Nil)
        ELSE IF baseMatchesCount # targetMatchesCount
        THEN Returns(Sprintf2(CountFormat, targetMatchesCount, baseMatchesCount))
        ELSE SimpleCompareFrom(baseMatches, targetMatches, 1)

\* The loop of validatePositionalPlaceholders from index i.  foundMatch stays
\* nil when no target token equals the base token, and the error message is
\* then built from foundMatch[1]: an index into a nil slice, which panics.
RECURSIVE PositionalCompareFrom(_, _, _)
PositionalCompareFrom(baseMatches, targetMatches, i) ==
    IF i > Len(baseMatches) THEN Returns(Nil)
    ELSE LET found == \E k \in 1..Len(targetMatches) :
                          targetMatches[k] = baseMatches[i]
         IN  IF ~found THEN Panics
             ELSE PositionalCompareFrom(baseMatches, targetMatches, i + 1)

validatePositionalPlaceholders(baseString, validatedString) ==
    LET baseMatches == PositionalPlaceholderRegex(baseString)
        targetMatches == PositionalPlaceholderRegex(validatedString)
        baseMatchesCount == Len(baseMatches)
        targetMatchesCount == Len(targetMatches)
    IN  IF baseMatchesCount = 0 /\ targetMatchesCount = 0 THEN Returns(Nil)
        ELSE IF baseMatchesCount # targetMatchesCount
        THEN Returns(Sprintf2(CountFormat, targetMatchesCount, baseMatchesCount))
        ELSE PositionalCompareFrom(baseMatches, targetMatches, 1)

MutPotentialBlankOnly(elemValue) ==
    IF \E i \in 1..(Len(elemValue) - 1) : elemValue[i] = "%" /\ elemValue[i + 1] = " "
    THEN Returns(Sprintf1(PotentialFormat, ReplaceAllNewLines(elemValue)))
    ELSE Returns(Nil)

validatePotentialPlaceholder(elemValue) ==
    LET matches == PotentialPlaceholderRegex(elemValue)
    IN  IF Len(matches) > 0
        THEN Returns(Sprintf1(PotentialFormat, ReplaceAllNewLines(elemValue)))
        ELSE Returns(Nil)

validateNewlineCharacters(elemValue) ==
    LET matches == NewLineRegex(elemValue)
    IN  IF Len(matches) > 0
        THEN Returns(Sprintf1(NewlineFormat, ReplaceAllNewLines(elemValue)))
        ELSE Returns(Nil)

-----------------------------------------------------------------------------
(* The resource model: resourcesEl and its elements.                       *)

stringEl(name, value) == [Name |-> name, Value |-> value]

pluralItemEl(quantity, value) == [Quantity |-> quantity, Value |-> value]

pluralEl(name, items) == [Name |-> name, Items |-> items]

stringArrayEl(name, items) == [Name |-> name, Items |-> items]

resourcesEl(strings, plurals, stringArrays) ==
    [Strings |-> strings, Plurals |-> plurals, StringArrays |-> stringArrays]

\* An error of the list.  site is not part of the Go value: it names the loop
\* of validateResources that appended the error ("presence", "strings",
\* "arrays", "plurals"), whose messages the Go code formats alike.
ValidationError(site, msg) == [type |-> "ValidationError", msg |-> msg, site |-> site]

ResourceMissingError(site, msg) ==
    [type |-> "ResourceMissingError", msg |-> msg, site |-> site]

\* The first element of els named name, as a pointer: <<el>>, or <<>> for nil.
RECURSIVE FindFirstFrom(_, _, _)
FindFirstFrom(els, name, i) ==
    IF i > Len(els) THEN <<>>
    ELSE IF els[i].Name = name THEN <<els[i]>>
    ELSE FindFirstFrom(els, name, i + 1)

findStringElement(resources, name) == FindFirstFrom(resources.Strings, name, 1)

findStringArrayElement(resources, name) == FindFirstFrom(resources.StringArrays, name, 1)

-----------------------------------------------------------------------------
(* validateResources.  A run is the errorList built so far and whether a   *)
(* rule has panicked; once it has, nothing more is executed.               *)

comparisonValidationFuncs == <<"validateSimplePlaceholders", "validatePositionalPlaceholders">>

simpleValidationFuncs == <<"validatePotentialPlaceholder", "validateNewlineCharacters">>

CallComparison(fn, baseString, validatedString) ==
    IF fn = "validateSimplePlaceholders"
    THEN validateSimplePlaceholders(baseString, validatedString)
    ELSE validatePositionalPlaceholders(baseString, validatedString)

CallSimple(fn, s) ==
    IF fn = "validatePotentialPlaceholder"
    THEN validatePotentialPlaceholder(s)
    ELSE validateNewlineCharacters(s)

\* var errorList []error
NoRun == [errorList |-> <<>>, panicked |-> FALSE]

AppendError(run, e) == [run EXCEPT !.errorList = Append(@, e)]

Panicked(run) == [run EXCEPT !.panicked = TRUE]

RuleErrorFormat == "%s in %s: %s"

NoBaseFormat == "%s in %s does not have a base value."

MissingFormat == "[missing] element named %s in %s"

ArrayCountFormat == "%s array in %s has %d items, but it should have %d"

\* for _, fn := range comparisonValidationFuncs { ... }, from the k-th function.
RECURSIVE RunComparisonFuncs(_, _, _, _, _, _, _)
RunComparisonFuncs(run, k, site, name, shortPath, baseString, validatedString) ==
    IF run.panicked \/ k > Len(comparisonValidationFuncs) THEN run
    ELSE LET out == CallComparison(comparisonValidationFuncs[k], baseString, validatedString)
             next == IF out.panicked THEN Panicked(run)
                     ELSE IF out.err # Nil
                     THEN AppendError(run,
                              ValidationError(site,
                                  Sprintf3(RuleErrorFormat, name, shortPath, out.err)))
                     ELSE run
         IN  RunComparisonFuncs(next, k + 1, site, name, shortPath, baseString, validatedString)

\* for _, fn := range simpleValidationFuncs { ... }, from the k-th function.
RECURSIVE RunSimpleFuncs(_, _, _, _, _, _)
RunSimpleFuncs(run, k, site, name, shortPath, s) ==
    IF run.panicked \/ k > Len(simpleValidationFuncs) THEN run
    ELSE LET out == CallSimple(simpleValidationFuncs[k], s)
             next == IF out.panicked THEN Panicked(run)
                     ELSE IF out.err # Nil
                     THEN AppendError(run,
                              ValidationError(site,
                                  Sprintf3(RuleErrorFormat, name, shortPath, out.err)))
                     ELSE run
         IN  RunSimpleFuncs(next, k + 1, site, name, shortPath, s)

\* The comparison rules and then the single-value rules on one pair of values.
ValidateValue(run, site, name, shortPath, baseString, validatedString) ==
    RunSimpleFuncs(
        RunComparisonFuncs(run, 1, site, name, shortPath, baseString, validatedString),
        1, site, name, shortPath, validatedString)

\* A variant of the first loop with its test inverted: it reports the
\* validated strings that do have a base value.
MutCheckBaseValuesInverted(run, baseRes, validatedRes, shortPath) ==
    LET HasBaseValue(validatedElem) ==
            \E k \in 1..Len(baseRes.Strings) :
                 validatedElem.Name = baseRes.Strings[k].Name
        found == SelectSeq(validatedRes.Strings, HasBaseValue)
    IN  [run EXCEPT !.errorList = @ \o
            [i \in 1..Len(found) |->
                ValidationError("presence",
                    Sprintf2(NoBaseFormat, found[i].Name, shortPath))]]

\* The first loop: one error, in order, for every validated string that has
\* no base string of its name.  (The loop cannot panic and is written as a
\* filter, which TLC evaluates without recursion on long documents.)
CheckBaseValues(run, baseRes, validatedRes, shortPath) ==
    LET HasNoBaseValue(validatedElem) ==
            ~\E k \in 1..Len(baseRes.Strings) :
                  validatedElem.Name = baseRes.Strings[k].Name
        orphans == SelectSeq(validatedRes.Strings, HasNoBaseValue)
    IN  [run EXCEPT !.errorList = @ \o
            [i \in 1..Len(orphans) |->
                ValidationError("presence",
                    Sprintf2(NoBaseFormat, orphans[i].Name, shortPath))]]

\* "Validate string elements", from the i-th base string.
RECURSIVE ValidateStringsFrom(_, _, _, _, _, _)
ValidateStringsFrom(run, i, baseRes, validatedRes, shortPath, missing) ==
    IF run.panicked \/ i > Len(baseRes.Strings) THEN run
    ELSE LET baseElem == baseRes.Strings[i]
             validatedElem == findStringElement(validatedRes, baseElem.Name)
             next == IF validatedElem = <<>>
                     THEN IF missing
                          THEN AppendError(run,
                                   ResourceMissingError("strings",
                                       Sprintf2(MissingFormat, baseElem.Name, shortPath)))
                          ELSE run
                     ELSE ValidateValue(run, "strings", baseElem.Name, shortPath,
                                        baseElem.Value, validatedElem[1].Value)
         IN  ValidateStringsFrom(next, i + 1, baseRes, validatedRes, shortPath, missing)

\* for i := range baseElem.Items { ... }, from the i-th item.
RECURSIVE ValidateItemsFrom(_, _, _, _, _)
ValidateItemsFrom(run, i, baseElem, validatedElem, shortPath) ==
    IF run.panicked \/ i > Len(baseElem.Items) THEN run
    ELSE ValidateItemsFrom(
             ValidateValue(run, "arrays", baseElem.Name, shortPath,
                           baseElem.Items[i], validatedElem.Items[i]),
             i + 1, baseElem, validatedElem, shortPath)

\* The body of the string-array loop once the validated array is found.
ValidateArray(run, baseElem, validatedElem, shortPath) ==
    IF Len(baseElem.Items) # Len(validatedElem.Items)
    THEN AppendError(run,
             ValidationError("arrays",
                 <<ArrayCountFormat, validatedElem.Name, shortPath,
                   Len(validatedElem.Items), Len(baseElem.Items)>>))
    ELSE ValidateItemsFrom(run, 1, baseElem, validatedElem, shortPath)

\* "Validate string-array elements", from the i-th base array.
RECURSIVE ValidateStringArraysFrom(_, _, _, _, _, _)
ValidateStringArraysFrom(run, i, baseRes, validatedRes, shortPath, missing) ==
    IF run.panicked \/ i > Len(baseRes.StringArrays) THEN run
    ELSE LET baseElem == baseRes.StringArrays[i]
             validatedElem == findStringArrayElement(validatedRes, baseElem.Name)
             next == IF validatedElem = <<>>
                     THEN IF missing
                          THEN AppendError(run,
                                   ResourceMissingError("arrays",
                                       Sprintf2(MissingFormat, baseElem.Name, shortPath)))
                          ELSE run
                     ELSE ValidateArray(run, baseElem, validatedElem[1], shortPath)
         IN  ValidateStringArraysFrom(next, i + 1, baseRes, validatedRes, shortPath, missing)

\* for _, pluralValue := range pluralsElem.Items { ... }, from the j-th item.
RECURSIVE ValidatePluralItemsFrom(_, _, _, _)
ValidatePluralItemsFrom(run, j, pluralsElem, shortPath) ==
    IF run.panicked \/ j > Len(pluralsElem.Items) THEN run
    ELSE ValidatePluralItemsFrom(
             RunSimpleFuncs(run, 1, "plurals", pluralsElem.Name, shortPath,
                            pluralsElem.Items[j].Value),
             j + 1, pluralsElem, shortPath)

\* "Validate plurals elements", from the i-th validated plural.
RECURSIVE ValidatePluralsFrom(_, _, _, _)
ValidatePluralsFrom(run, i, validatedRes, shortPath) ==
    IF run.panicked \/ i > Len(validatedRes.Plurals) THEN run
    ELSE ValidatePluralsFrom(
             ValidatePluralItemsFrom(run, 1, validatedRes.Plurals[i], shortPath),
             i + 1, validatedRes, shortPath)

\* A variant of validateResources whose string loop reports missing strings
\* whatever showMissing is.
MutAlwaysShowMissing(baseRes, validatedRes, shortPath, missing) ==
    LET run0 == NoRun
        run1 == CheckBaseValues(run0, baseRes, validatedRes, shortPath)
        run2 == ValidateStringsFrom(run1, 1, baseRes, validatedRes, shortPath, TRUE)
        run3 == ValidateStringArraysFrom(run2, 1, baseRes, validatedRes, shortPath, missing)
    IN  ValidatePluralsFrom(run3, 1, validatedRes, shortPath)

validateResources(baseRes, validatedRes, shortPath, missing) ==
    LET run0 == NoRun
        run1 == CheckBaseValues(run0, baseRes, validatedRes, shortPath)
        run2 == ValidateStringsFrom(run1, 1, baseRes, validatedRes, shortPath, missing)
        run3 == ValidateStringArraysFrom(run2, 1, baseRes, validatedRes, shortPath, missing)
    IN  ValidatePluralsFrom(run3, 1, validatedRes, shortPath)

-----------------------------------------------------------------------------
(* Files.  A path is the tuple filepath.Join makes of its parts; fs maps   *)
(* every values directory to the state of its strings file.                *)

stringsFilename == "strings.xml"

valuesDir(locale) ==
    IF locale # "" THEN Sprintf1("values-%s", locale) ELSE <<"values">>

Join(dir, valuesDirName, fileName) == <<dir, valuesDirName, fileName>>

NoResources == resourcesEl(<<>>, <<>>, <<>>)

Absent == [state |-> "absent", resources |-> NoResources]

Malformed == [state |-> "malformed", resources |-> NoResources]

WellFormed(resources) == [state |-> "ok", resources |-> resources]

PathError(path) == [type |-> "PathError", msg |-> Sprintf1("open %s: no such file or directory", path)]

SyntaxError == [type |-> "SyntaxError", msg |-> <<"XML syntax error">>]

ErrBadPattern == [type |-> "error", msg |-> <<"syntax error in pattern">>]

\* ioutil.ReadFile fails on a missing file, xml.Unmarshal on a malformed one.
parseResourcesFile(path) ==
    LET file == fs[path[2]]
    IN  IF file.state = "absent"
        THEN [failed |-> TRUE, err |-> PathError(path), resources |-> NoResources]
        ELSE IF file.state = "malformed"
        THEN [failed |-> TRUE, err |-> SyntaxError, resources |-> NoResources]
        ELSE [failed |-> FALSE, err |-> SyntaxError, resources |-> file.resources]

parseResources(dir, localeName, fileName) ==
    parseResourcesFile(Join(dir, valuesDir(localeName), fileName))

\* The locales a res directory may hold, in the lexical order Glob reports them.
LocaleNames == <<"de", "fr", "pl", "ru">>

MaxLocales == 3

Locales == SubSeq(LocaleNames, 1, MaxLocales)

\* filepath.Glob reports ErrBadPattern for a malformed pattern: here a res
\* directory name with an unclosed character class.
BadPattern(dir) == dir = "res["

RECURSIVE RemoveFirst(_, _, _)
RemoveFirst(ps, p, i) ==
    IF i > Len(ps) THEN ps
    ELSE IF ps[i] = p THEN SubSeq(ps, 1, i - 1) \o SubSeq(ps, i + 1, Len(ps))
    ELSE RemoveFirst(ps, p, i + 1)

getOtherStringsFilePaths(dir, exceptForLocale, fileName) ==
    IF BadPattern(dir)
    THEN [failed |-> TRUE, err |-> ErrBadPattern, paths |-> <<>>]
    ELSE LET Exists(p) == fs[p[2]].state # "absent"
             all1 == [i \in 1..Len(Locales) |-> Join(dir, valuesDir(Locales[i]), fileName)]
             all2 == <<Join(dir, valuesDir(""), fileName)>>
             found == SelectSeq(all1, Exists) \o SelectSeq(all2, Exists)
             exceptForPath == Join(dir, valuesDir(exceptForLocale), fileName)
         IN  [failed |-> FALSE, err |-> ErrBadPattern,
              paths |-> RemoveFirst(found, exceptForPath, 1)]

\* filepath.Rel(resDir, path) of a path that was joined from resDir.
extractShortPath(dir, stringsFilePath) == SubSeq(stringsFilePath, 2, 3)

-----------------------------------------------------------------------------
(* The process: validateStrings of main, and Validate within it.           *)

ExitStatusModulus == 256

\* os.Exit(code): the status the parent sees is the low 8 bits of code.
Exit(code) == <<code % ExitStatusModulus>>

AfterPath(i, ps) == IF i > Len(ps) THEN "returned" ELSE "loop"

\* validateStrings up to its call of Validate, and Validate up to its first
\* return: the arguments are checked and the base resources parsed.
ParseBase ==
    /\ pc = "validateStrings"
    /\ IF ~(resDir # "" /\ stringsFilename # "")
       THEN /\ pc' = "exited"
            /\ exitStatus' = Exit(-1)
            /\ UNCHANGED <<baseResources, errorList>>
       ELSE LET parsed == parseResources(resDir, baseLocale, stringsFilename)
            IN  IF parsed.failed
                THEN /\ errorList' = Append(<<>>, parsed.err)
                     /\ pc' = "returned"
                     /\ UNCHANGED <<baseResources, exitStatus>>
                ELSE /\ baseResources' = parsed.resources
                     /\ errorList' = <<>>
                     /\ pc' = "paths"
                     /\ UNCHANGED exitStatus
    /\ UNCHANGED <<resDir, baseLocale, showMissing, fs, paths, idx, ers>>
    /\ UNCHANGED ruleVars

\* Validate: the other files are enumerated.
GetPaths ==
    /\ pc = "paths"
    /\ LET got == getOtherStringsFilePaths(resDir, baseLocale, stringsFilename)
       IN  IF got.failed
           THEN /\ errorList' = Append(errorList, got.err)
                /\ pc' = "returned"
                /\ UNCHANGED <<paths, idx>>
           ELSE /\ paths' = got.paths
                /\ idx' = 1
                /\ pc' = AfterPath(1, got.paths)
                /\ UNCHANGED errorList
    /\ UNCHANGED <<resDir, baseLocale, showMissing, fs, baseResources, ers, exitStatus>>
    /\ UNCHANGED ruleVars

\* Validate: one iteration of the loop over paths.  A panic of a rule is not
\* recovered anywhere: Validate does not return.
ValidateFile ==
    /\ pc = "loop"
    /\ LET path == paths[idx]
           parsed == parseResourcesFile(path)
           shortPath == extractShortPath(resDir, path)
           result == validateResources(baseResources, parsed.resources, shortPath, showMissing)
       IN  IF parsed.failed
           THEN /\ errorList' = Append(errorList, parsed.err)
                /\ ers' = NoRun
                /\ idx' = idx + 1
                /\ pc' = AfterPath(idx + 1, paths)
           ELSE IF result.panicked
           THEN /\ ers' = result
                /\ pc' = "panicked"
                /\ UNCHANGED <<errorList, idx>>
           ELSE /\ ers' = result
                /\ errorList' = errorList \o result.errorList
                /\ idx' = idx + 1
                /\ pc' = AfterPath(idx + 1, paths)
    /\ UNCHANGED <<resDir, baseLocale, showMissing, fs, baseResources, paths, exitStatus>>
    /\ UNCHANGED ruleVars

\* validateStrings after Validate has returned: the errors are counted and
\* printed, and the process exits with the count.
ReportAndExit ==
    /\ pc = "returned"
    /\ LET errorCount == Len(errorList)
       IN  exitStatus' = Exit(errorCount)
    /\ pc' = "exited"
    /\ UNCHANGED <<resDir, baseLocale, showMissing, fs, baseResources, paths, idx,
                   errorList, ers>>
    /\ UNCHANGED ruleVars

-----------------------------------------------------------------------------
(* The inputs explored.                                                    *)

MaxStrings == 2

MaxItems == 3

MaxErrorCount == 300

SeqsUpTo(S, n) == UNION {[1..k -> S] : k \in 0..n}

\* "%s %1$s"
ValueA == <<"%", "s", " ", "%", "1", "$", "s">>

\* "%d %2$s"
ValueB == <<"%", "d", " ", "%", "2", "$", "s">>

\* "% \n"
ValueC == <<"%", " ", "\n">>

Values == {ValueA, ValueB, ValueC}

Dirs == {valuesDir("")} \cup {valuesDir(Locales[i]) : i \in 1..Len(Locales)}

\* A res directory with a base file in values and one other file in values-de.
Pair(base, validated) ==
    [d \in Dirs |-> IF d = valuesDir("") THEN WellFormed(base)
                    ELSE IF d = valuesDir("de") THEN WellFormed(validated)
                    ELSE Absent]

StringDocs ==
    {resourcesEl(ss, <<>>, <<>>) :
        ss \in SeqsUpTo({stringEl("a", v) : v \in Values}
                        \cup {stringEl("b", v) : v \in {ValueA, ValueC}}, MaxStrings)}

ArrayDocs ==
    {NoResources} \cup
    {resourcesEl(<<>>, <<>>, <<stringArrayEl("r", items)>>) :
        items \in SeqsUpTo(Values, MaxItems)}

MixedDocs ==
    {resourcesEl(ss, ps, as) :
        ss \in {<<>>} \cup {<<stringEl(n, v)>> : n \in {"a", "r"}, v \in {ValueA, ValueC}},
        ps \in {<<>>, <<pluralEl("p", <<pluralItemEl("one", ValueC),
                                         pluralItemEl("other", ValueC)>>)>>}
               \cup {<<pluralEl("p", <<pluralItemEl("one", v)>>)>> : v \in {ValueA, ValueC}},
        as \in {<<>>} \cup {<<stringArrayEl("r", <<v>>)>> : v \in {ValueA, ValueC}}}

FileDocs == {resourcesEl(<<stringEl("a", v)>>, <<>>, <<>>) : v \in Values}

\* A document of n strings, for a base document that has none.
Orphans(n) == resourcesEl([i \in 1..n |-> stringEl("a", <<>>)], <<>>, <<>>)

PairInputs ==
    {[resDir |-> "res", baseLocale |-> "", showMissing |-> m, fs |-> Pair(b, v)] :
        m \in BOOLEAN,
        <<b, v>> \in (StringDocs \X StringDocs) \cup (ArrayDocs \X ArrayDocs)
                     \cup (MixedDocs \X MixedDocs)}

FileInputs ==
    {[resDir |-> r, baseLocale |-> l, showMissing |-> TRUE, fs |-> f] :
        r \in {"res", "res["}, l \in {"", "de"},
        f \in [Dirs -> {Absent, Malformed} \cup {WellFormed(d) : d \in FileDocs}]}

\* validateStrings without a res directory argument.
UsageInputs ==
    {[resDir |-> "", baseLocale |-> "", showMissing |-> FALSE,
      fs |-> Pair(NoResources, NoResources)]}

CountInputs ==
    {[resDir |-> "res", baseLocale |-> "", showMissing |-> FALSE,
      fs |-> Pair(NoResources, Orphans(n))] : n \in 0..MaxErrorCount}

Inputs == PairInputs \cup FileInputs \cup UsageInputs \cup CountInputs

NoRuleOutcome == [simple |-> Returns(Nil), positional |-> Returns(Nil),
                  potential |-> Returns(Nil), newline |-> Returns(Nil)]

Init ==
    /\ \E in \in Inputs :
          /\ resDir = in.resDir
          /\ baseLocale = in.baseLocale
          /\ showMissing = in.showMissing
          /\ fs = in.fs
    /\ pc = "validateStrings"
    /\ baseResources = NoResources
    /\ paths = <<>>
    /\ idx = 1
    /\ errorList = <<>>
    /\ ers = NoRun
    /\ exitStatus = <<>>
    /\ baseElemString = <<>>
    /\ validatedElemString = <<>>
    /\ ruleOutcome = NoRuleOutcome

Next == ParseBase \/ GetPaths \/ ValidateFile \/ ReportAndExit

Spec == Init /\ [][Next]_vars

-----------------------------------------------------------------------------
(* The rules applied on their own, to every pair of a family of values.    *)

MaxFrags == 2

Fragments == {<<"%">>, <<"s">>, <<"d">>, <<" ">>, <<"\n">>, <<"\t">>,
              <<"%", "1", "$", "s">>, <<"%", "2", "$", "d">>}

\* The concatenation of a sequence of sequences (by halves, to keep the
\* evaluation shallow on long lists).
RECURSIVE Concat(_)
Concat(parts) ==
    IF Len(parts) = 0 THEN <<>>
    ELSE IF Len(parts) = 1 THEN parts[1]
    ELSE LET h == Len(parts) \div 2
         IN  Concat(SubSeq(parts, 1, h)) \o Concat(SubSeq(parts, h + 1, Len(parts)))

\* "%s and %d"
SAndD == <<"%", "s", " ", "a", "n", "d", " ", "%", "d">>

\* "%d and %s"
DAndS == <<"%", "d", " ", "a", "n", "d", " ", "%", "s">>

\* "%1$s %2$d"
Pos12 == <<"%", "1", "$", "s", " ", "%", "2", "$", "d">>

\* "%2$d %1$s"
Pos21 == <<"%", "2", "$", "d", " ", "%", "1", "$", "s">>

\* "%1$s"
Pos1s == <<"%", "1", "$", "s">>

\* "%2$s"
Pos2s == <<"%", "2", "$", "s">>

\* "% off"
PercentOff == <<"%", " ", "o", "f", "f">>

\* "50% off"
FiftyPercentOff == <<"5", "0", "%", " ", "o", "f", "f">>

\* "50%off"
FiftyPercentoff == <<"5", "0", "%", "o", "f", "f">>

Examples == {SAndD, DAndS, Pos12, Pos21, Pos1s, Pos2s, PercentOff, FiftyPercentOff,
             FiftyPercentoff,
             <<"%", "1", "2", "$", "s">>, <<"%", "%", "s">>, <<"%", "$", "s">>,
             <<"%", "1", "$">>, <<"1", "0", "0", "%">>}

RuleStrings == {Concat(parts) : parts \in SeqsUpTo(Fragments, MaxFrags)} \cup Examples

InitRules ==
    /\ baseElemString \in RuleStrings
    /\ validatedElemString \in RuleStrings
    /\ ruleOutcome = NoRuleOutcome
    /\ pc = "rules"
    /\ resDir = "res"
    /\ baseLocale = ""
    /\ showMissing = FALSE
    /\ fs = Pair(NoResources, NoResources)
    /\ baseResources = NoResources
    /\ paths = <<>>
    /\ idx = 1
    /\ errorList = <<>>
    /\ ers = NoRun
    /\ exitStatus = <<>>

\* The four calls validateResources makes for one pair of values.
ApplyRules ==
    /\ pc = "rules"
    /\ ruleOutcome' =
           [simple |-> validateSimplePlaceholders(baseElemString, validatedElemString),
            positional |-> validatePositionalPlaceholders(baseElemString, validatedElemString),
            potential |-> validatePotentialPlaceholder(validatedElemString),
            newline |-> validateNewlineCharacters(validatedElemString)]
    /\ pc' = "applied"
    /\ UNCHANGED <<resDir, baseLocale, showMissing, fs, baseResources, paths, idx,
                   errorList, ers, exitStatus, baseElemString, validatedElemString>>

NextRules == ApplyRules

SpecRules == InitRules /\ [][NextRules]_vars

-----------------------------------------------------------------------------
(* Properties of the rules, under SpecRules.                               *)

\* The positions of s where '%' is directly followed by a letter.
SimpleTokenPositions(s) ==
    {i \in 1..(Len(s) - 1) : s[i] = "%" /\ s[i + 1] \in Letters}

\* The '%<letter>' tokens of s in order of appearance.
SimpleTokens(s) ==
    LET P == SimpleTokenPositions(s)
        At(k) == CHOOSE p \in P : Cardinality({q \in P : q <= p}) = k
    IN  [k \in 1..Cardinality(P) |-> SubSeq(s, At(k), At(k) + 1)]

FirstDifference(a, b) ==
    CHOOSE i \in 1..Len(a) : a[i] # b[i] /\ \A k \in 1..(i - 1) : a[k] = b[k]

\* C7: the named-placeholder rule passes exactly when the '%<letter>' tokens
\* of the base value and of the translated value, in order of appearance, are
\* the same sequence; with different lengths it reports the two counts, and
\* otherwise the first index (from 0) where the tokens differ, with both
\* tokens.  "%s and %d" against "%d and %s" fails at index 0, "%s" against
\* "%s" passes, "%s" against "" fails with count 0 found, 1 expected.
C7_NamedPlaceholderRule ==
    pc = "applied" =>
        LET bt == SimpleTokens(baseElemString)
            tt == SimpleTokens(validatedElemString)
            out == ruleOutcome.simple
        IN  /\ ~out.panicked
            /\ (out.err = Nil) <=> (bt = tt)
            /\ Len(bt) # Len(tt) => out.err = <<CountFormat, Len(tt), Len(bt)>>
            /\ (Len(bt) = Len(tt) /\ bt # tt) =>
                   LET i == FirstDifference(bt, tt)
                   IN  out.err = <<MismatchFormat, i - 1, tt[i], bt[i]>>
            /\ (baseElemString = SAndD /\ validatedElemString = DAndS) =>
                   out.err = <<MismatchFormat, 0, <<"%", "d">>, <<"%", "s">>>>
            /\ (baseElemString = <<"%", "s">> /\ validatedElemString = <<"%", "s">>) =>
                   out.err = Nil
            /\ (baseElemString = <<"%", "s">> /\ validatedElemString = <<>>) =>
                   out.err = <<CountFormat, 0, 1>>

\* "%s and %d" against "%d and %s" has been checked and failed at index 0.
C7_Witness ==
    /\ pc = "applied"
    /\ baseElemString = SAndD
    /\ validatedElemString = DAndS
    /\ ruleOutcome.simple.err = <<MismatchFormat, 0, <<"%", "d">>, <<"%", "s">>>>

HasPercentSpace(s) ==
    \E i \in 1..(Len(s) - 1) : s[i] = "%" /\ s[i + 1] \in {" ", "\t", "\n", "\f", "\r"}

\* C6 as stated: the potential-placeholder rule fails exactly the values that
\* hold a '%' followed by whitespace; "% off" fails and "50% off" passes.
C6_AsStated ==
    pc = "applied" =>
        LET out == ruleOutcome.potential
        IN  /\ ~out.panicked
            /\ (out.err # Nil) <=> HasPercentSpace(validatedElemString)
            /\ validatedElemString = PercentOff => out.err # Nil
            /\ validatedElemString = FiftyPercentOff => out.err = Nil

\* C6 amended: the potential-placeholder rule fails exactly the values that
\* hold a '%' followed by whitespace, reporting the value with its newlines
\* escaped; "% off" fails and so does "50% off", whose '%' is followed by a
\* space, while "50%off" passes.
C6_PotentialPlaceholderRule ==
    pc = "applied" =>
        LET out == ruleOutcome.potential
        IN  /\ ~out.panicked
            /\ (out.err # Nil) <=> HasPercentSpace(validatedElemString)
            /\ out.err # Nil => out.err[1] = PotentialFormat
            /\ validatedElemString = PercentOff => out.err # Nil
            /\ validatedElemString = FiftyPercentOff => out.err # Nil
            /\ validatedElemString = FiftyPercentoff => out.err = Nil

\* "50% off" has been checked and failed the rule.
C6_Witness ==
    /\ pc = "applied"
    /\ validatedElemString = FiftyPercentOff
    /\ ruleOutcome.potential.err # Nil

Range(seq) == {seq[i] : i \in 1..Len(seq)}

\* C5: the positional-placeholder rule, for equal token counts, passes when
\* every base token equals some translated token, in any order, and otherwise
\* returns a violation that reports the expected base token; for different
\* counts it returns a violation with the found and the expected count.
C5_PositionalPlaceholderRule ==
    pc = "applied" =>
        LET bt == PositionalPlaceholderRegex(baseElemString)
            tt == PositionalPlaceholderRegex(validatedElemString)
            out == ruleOutcome.positional
        IN  /\ Len(bt) # Len(tt) => out = Returns(<<CountFormat, Len(tt), Len(bt)>>)
            /\ (Len(bt) = Len(tt) /\ Range(bt) \subseteq Range(tt)) => out = Returns(Nil)
            /\ (Len(bt) = Len(tt) /\ ~(Range(bt) \subseteq Range(tt))) =>
                   /\ ~out.panicked
                   /\ out.err # Nil
                   /\ out.err[1] = MismatchFormat
                   /\ out.err[4] \in Range(bt) \ Range(tt)

-----------------------------------------------------------------------------
(* Properties of Validate and validateStrings, under Spec.                 *)

Ended == pc \in {"returned", "exited", "panicked"}

\* The index in paths of the file validateResources was last called for.
LastIndex == IF pc = "panicked" THEN idx ELSE idx - 1

\* validateResources has been called for a parsed file, and ers is what it built.
FileValidated ==
    /\ pc \in {"loop", "returned", "exited", "panicked"}
    /\ LastIndex \in 1..Len(paths)
    /\ fs[paths[LastIndex][2]].state = "ok"

LastResources == fs[paths[LastIndex][2]].resources

LastShortPath == <<paths[LastIndex][2], stringsFilename>>

Names(els) == {els[i].Name : i \in 1..Len(els)}

\* How many elements of baseEls have no element of their name in validatedEls.
AbsentCount(baseEls, validatedEls) ==
    Cardinality({i \in 1..Len(baseEls) : baseEls[i].Name \notin Names(validatedEls)})

IsMissing(e) == e.type = "ResourceMissingError"

CleanValue(v) == ~HasPercentSpace(v) /\ "\n" \notin Range(v)

\* Entries of one kind and one name have the same content, and every value
\* passes the two single-value rules.
CleanDocument(res) ==
    /\ \A i, j \in 1..Len(res.Strings) :
           res.Strings[i].Name = res.Strings[j].Name =>
               res.Strings[i].Value = res.Strings[j].Value
    /\ \A i, j \in 1..Len(res.StringArrays) :
           res.StringArrays[i].Name = res.StringArrays[j].Name =>
               res.StringArrays[i].Items = res.StringArrays[j].Items
    /\ \A i \in 1..Len(res.Strings) : CleanValue(res.Strings[i].Value)
    /\ \A i \in 1..Len(res.StringArrays) :
           \A k \in 1..Len(res.StringArrays[i].Items) :
               CleanValue(res.StringArrays[i].Items[k])
    /\ \A i \in 1..Len(res.Plurals) :
           \A k \in 1..Len(res.Plurals[i].Items) :
               CleanValue(res.Plurals[i].Items[k].Value)

\* C1: Validate never raises: whatever the documents, it finishes by
\* returning its list and is never aborted by a panic.
C1_NeverRaises == pc # "panicked"

\* C3 as stated: validating an identical copy of any base document yields no
\* finding, whatever showMissing is.
C3_AsStated ==
    (FileValidated /\ LastResources = baseResources) =>
        (~ers.panicked /\ ers.errorList = <<>>)

\* C3 amended: validating an identical copy of a base document yields no
\* finding, whatever showMissing is, provided every value of the document
\* passes the two single-value rules (no '%' followed by whitespace, no
\* newline) and entries of the same kind and name have the same content.
C3_IdenticalCopy ==
    (FileValidated /\ LastResources = baseResources /\ CleanDocument(baseResources)) =>
        (~ers.panicked /\ ers.errorList = <<>>)

\* An identical copy with a string, a plural and a string array has been
\* validated with showMissing set, and nothing was found.
C3_Witness ==
    /\ FileValidated
    /\ LastResources = baseResources
    /\ CleanDocument(baseResources)
    /\ Len(baseResources.Strings) = 1
    /\ Len(baseResources.Plurals) = 1
    /\ Len(baseResources.StringArrays) = 1
    /\ showMissing
    /\ ers.errorList = <<>>

MissingFindings == SelectSeq(ers.errorList, IsMissing)

AbsentStrings == AbsentCount(baseResources.Strings, LastResources.Strings)

AbsentArrays == AbsentCount(baseResources.StringArrays, LastResources.StringArrays)

AbsentPlurals == AbsentCount(baseResources.Plurals, LastResources.Plurals)

C9_ExitStatusIsCount ==
    (pc = "exited" /\ resDir # "") =>
        /\ exitStatus = <<Len(errorList)>>
        /\ (exitStatus[1] = 0) <=> (Len(errorList) = 0)

-----------------------------------------------------------------------------
(* What the findings should be, stated from the rules rather than computed *)
(* by the loops above.                                                     *)

\* The '%<digits>$<letter>' tokens of s in order of appearance.
PositionalTokens(s) ==
    LET IsToken(i, j) ==
            /\ s[i] = "%"
            /\ j > i + 1
            /\ \A d \in (i + 1)..(j - 1) : s[d] \in Digits
            /\ s[j] = "$"
            /\ s[j + 1] \in Letters
        Spans == {<<i, j>> \in (1..Len(s)) \X (1..(Len(s) - 1)) : IsToken(i, j)}
        At(k) == CHOOSE sp \in Spans : Cardinality({q \in Spans : q[1] <= sp[1]}) = k
    IN  [k \in 1..Cardinality(Spans) |-> SubSeq(s, At(k)[1], At(k)[2] + 1)]

\* The error the named-placeholder rule owes for a pair of values, or Nil.
OwedNamed(b, v) ==
    LET bt == SimpleTokens(b)
        tt == SimpleTokens(v)
    IN  IF bt = tt THEN Nil
        ELSE IF Len(bt) # Len(tt) THEN <<CountFormat, Len(tt), Len(bt)>>
        ELSE LET i == FirstDifference(bt, tt)
             IN  <<MismatchFormat, i - 1, tt[i], bt[i]>>

\* The text reported for the translated token when none equals the base token.
NoneFound == <<"n", "o", "n", "e">>

\* The error the positional-placeholder rule owes for a pair of values, or Nil.
OwedPositional(b, v) ==
    LET bt == PositionalTokens(b)
        tt == PositionalTokens(v)
        unmatched == {i \in 1..Len(bt) : bt[i] \notin Range(tt)}
    IN  IF Len(bt) # Len(tt) THEN <<CountFormat, Len(tt), Len(bt)>>
        ELSE IF unmatched = {} THEN Nil
        ELSE LET i == CHOOSE m \in unmatched : \A n \in unmatched : m <= n
             IN  <<MismatchFormat, i - 1, NoneFound, bt[i]>>

OwedPotential(v) ==
    IF HasPercentSpace(v) THEN <<PotentialFormat, ReplaceAllNewLines(v)>> ELSE Nil

OwedNewline(v) ==
    IF "\n" \in Range(v) THEN <<NewlineFormat, ReplaceAllNewLines(v)>> ELSE Nil

AsFinding(site, name, shortPath, err) ==
    IF err = Nil THEN <<>>
    ELSE <<ValidationError(site, <<RuleErrorFormat, name, shortPath, err>>)>>

\* One finding for every single-value rule the value fails, in rule order.
OwedSingle(site, name, shortPath, v) ==
    AsFinding(site, name, shortPath, OwedPotential(v))
    \o AsFinding(site, name, shortPath, OwedNewline(v))

\* One finding for every rule the pair fails: named, positional, potential,
\* newline.
OwedValue(site, name, shortPath, b, v) ==
    AsFinding(site, name, shortPath, OwedNamed(b, v))
    \o AsFinding(site, name, shortPath, OwedPositional(b, v))
    \o OwedSingle(site, name, shortPath, v)

\* The first element of els with the given name (there is one).
First(els, name) ==
    els[CHOOSE i \in 1..Len(els) :
            /\ els[i].Name = name
            /\ \A k \in 1..(i - 1) : els[k].Name # name]

OwedMissing(site, name, shortPath, missing) ==
    IF missing
    THEN <<ResourceMissingError(site, <<MissingFormat, name, shortPath>>)>>
    ELSE <<>>

OwedPresence(base, doc, shortPath) ==
    Concat([i \in 1..Len(doc.Strings) |->
        IF doc.Strings[i].Name \in Names(base.Strings) THEN <<>>
        ELSE <<ValidationError("presence",
                   <<NoBaseFormat, doc.Strings[i].Name, shortPath>>)>>])

OwedString(b, doc, shortPath, missing) ==
    IF b.Name \notin Names(doc.Strings)
    THEN OwedMissing("strings", b.Name, shortPath, missing)
    ELSE OwedValue("strings", b.Name, shortPath, b.Value, First(doc.Strings, b.Name).Value)

\* The findings owed for a base array whose name the document has: one for
\* different item counts, else those of its items in index order.
OwedFoundArray(b, t, shortPath) ==
    IF Len(b.Items) # Len(t.Items)
    THEN <<ValidationError("arrays",
               <<ArrayCountFormat, t.Name, shortPath, Len(t.Items), Len(b.Items)>>)>>
    ELSE Concat([i \in 1..Len(b.Items) |->
             OwedValue("arrays", b.Name, shortPath, b.Items[i], t.Items[i])])

OwedArray(b, doc, shortPath, missing) ==
    IF b.Name \notin Names(doc.StringArrays)
    THEN OwedMissing("arrays", b.Name, shortPath, missing)
    ELSE OwedFoundArray(b, First(doc.StringArrays, b.Name), shortPath)

OwedPlural(p, shortPath) ==
    Concat([j \in 1..Len(p.Items) |->
        OwedSingle("plurals", p.Name, shortPath, p.Items[j].Value)])

\* The findings owed for one parsed document, in the order of the four loops.
OwedDocument(base, doc, shortPath, missing) ==
    OwedPresence(base, doc, shortPath)
    \o Concat([i \in 1..Len(base.Strings) |->
                  OwedString(base.Strings[i], doc, shortPath, missing)])
    \o Concat([i \in 1..Len(base.StringArrays) |->
                  OwedArray(base.StringArrays[i], doc, shortPath, missing)])
    \o Concat([i \in 1..Len(doc.Plurals) |-> OwedPlural(doc.Plurals[i], shortPath)])

\* The findings owed for the k-th enumerated file.
OwedFile(k) ==
    LET file == fs[paths[k][2]]
    IN  IF file.state # "ok" THEN <<SyntaxError>>
        ELSE OwedDocument(baseResources, file.resources,
                          <<paths[k][2], stringsFilename>>, showMissing)

IsParseError(e) == e.type \in {"PathError", "SyntaxError"}

BaseFails == fs[valuesDir(baseLocale)].state # "ok"

\* Validate got past the base document and the enumeration.
Enumerated == resDir # "" /\ ~BaseFails /\ ~BadPattern(resDir)

FromArrays(e) == e.site = "arrays" /\ e.type = "ValidationError"

\* The statement of C2 about every run that has ended.
StructuralFailuresHandled ==
    /\ (resDir # "" /\ BaseFails) =>
           /\ errorList = <<parseResources(resDir, baseLocale, stringsFilename).err>>
           /\ paths = <<>> /\ idx = 1 /\ ers = NoRun
    /\ (resDir # "" /\ ~BaseFails /\ BadPattern(resDir)) =>
           /\ errorList = <<ErrBadPattern>>
           /\ paths = <<>> /\ idx = 1 /\ ers = NoRun
    /\ Enumerated =>
           \A k \in 1..Len(paths) :
               (k < idx /\ fs[paths[k][2]].state # "ok") =>
                   /\ Len(SelectSeq(errorList, IsParseError)) =
                          Cardinality({j \in 1..(idx - 1) : fs[paths[j][2]].state # "ok"})
                   /\ \A j \in 1..Len(paths) :
                          j # k => (j < idx \/ (j = idx /\ pc = "panicked"))

\* C2: when the base document cannot be parsed, or the other paths cannot be
\* enumerated, Validate returns that one error and parses no other file; a
\* translated file that cannot be parsed adds exactly one error, and every
\* other enumerated file is still validated.
C2_StructuralFailures == Ended => StructuralFailuresHandled

\* The same statement for the runs in which Validate returns.
C2_WhenReturned == pc \in {"returned", "exited"} => StructuralFailuresHandled

\* The findings owed by the string-array loop for the last validated file.
OwedArrayFindings ==
    Concat([i \in 1..Len(baseResources.StringArrays) |->
        LET b == baseResources.StringArrays[i]
        IN  IF b.Name \notin Names(LastResources.StringArrays) THEN <<>>
            ELSE OwedFoundArray(b, First(LastResources.StringArrays, b.Name),
                                LastShortPath)])

\* C8: for every base array whose name the translated document has, the
\* string-array loop makes exactly one ValidationError with both counts and
\* nothing else when the item counts differ, and otherwise exactly the
\* findings of the four rules on the items, pair by pair in index order.
C8_StringArrayCheck ==
    FileValidated => SelectSeq(ers.errorList, FromArrays) = OwedArrayFindings

\* The same statement for the calls of validateResources that return.
C8_WhenReturned ==
    (FileValidated /\ ~ers.panicked) =>
        SelectSeq(ers.errorList, FromArrays) = OwedArrayFindings

\* C10: the list Validate returns is the concatenation, in the order of the
\* enumeration, of the findings of each file: for a parsed file those of the
\* presence loop, of the base strings, of the base string arrays and of the
\* translated plurals, each failing rule giving one finding in the order
\* named, positional, potential, newline.
C10_Ordering ==
    (Ended /\ Enumerated) =>
        /\ pc # "panicked"
        /\ errorList = Concat([k \in 1..Len(paths) |-> OwedFile(k)])

\* The same statement for the runs in which Validate returns.
C10_WhenReturned ==
    (pc \in {"returned", "exited"} /\ Enumerated) =>
        errorList = Concat([k \in 1..Len(paths) |-> OwedFile(k)])

=============================================================================
